---- MODULE Spec2Model ----
(***************************************************************************)
(* UploadState (x-pack/plugins/files/public/components/upload_file/       *)
(* upload_state.ts): the client-side coordinator of a batch of file        *)
(* uploads.  One action per public operation (setFiles, upload, abort,     *)
(* clear) and one per backend response (create / upload resolving or       *)
(* rejecting).  Every action runs the whole synchronous cascade the rxjs   *)
(* pipelines perform in that turn of the event loop: the record's          *)
(* setState, the three aggregate derivations, catchError, both finalize    *)
(* callbacks and the forkJoin completion.                                  *)
(*                                                                         *)
(* Two more programs of the repository are modelled, each under its own    *)
(* specification: the server's upload route handler (HandlerSpec) and the  *)
(* prebuilt-rule-alerts telemetry task's runTask (TaskSpec).  Each is one  *)
(* action per stretch of code between two awaits.                          *)
(***************************************************************************)
EXTENDS Integers, Sequences, FiniteSets, TLC

VARIABLES
  allowRepeatedUploads, \* opts.allowRepeatedUploads
  hasMaxSize,           \* fileKind.maxSizeBytes != null
  files,                \* files$$: the batch, one FileState per record
  fileSizes,            \* the sizes of the batch's files (FileState.file.size), as a set
  att,                  \* per record: where its uploadFile pipeline waits
  uploading,            \* uploading$ (BehaviorSubject)
  error,                \* error$ (BehaviorSubject)
  running,              \* upload$ of the latest upload() has not finalized (sub is subscribed)
  abortBuf,             \* the cycle's ReplaySubject<void>(1) holds an abort
  nextId,               \* ids handed out by the backend's create so far
  deleted,              \* ids for which client.delete has been called
  lastOp,               \* the operation of the last step and how it returned
  out,                  \* emissions on done$, clear$ and abort$ during the last step
  calls,                \* backend calls issued during the last step
  completion,           \* upload$'s completion, when it happened in the last step
  batchDones,           \* done$ emissions with entries since the batch was installed
  cyc                   \* what has happened in the current upload cycle

\* The server's upload route handler, for one request.
VARIABLES
  pc,                   \* the await the handler is suspended at
  selfDestructOnAbort,  \* req.query.selfDestructOnAbort
  abortedAt,            \* where the handler was when req.events.aborted$ emitted
  sub,                  \* the subscription of abort$ to req.events.aborted$
  abortReplay,          \* abort$ (ReplaySubject) has the abort in its buffer
  delivered,            \* uploadContent has been handed the abort through abort$
  outcome,              \* how the awaited uploadContent settled
  response,             \* what the handler returned or threw
  effects               \* usage counter, logger and file.delete calls, in order

\* runTask of the prebuilt-rule-alerts telemetry task, for one run.
VARIABLES
  maxTelemetryBatch,    \* the task's batch size
  taskPc,               \* the await runTask is suspended at
  clusterInfo,          \* clusterInfo, {} if fetchClusterInfo was rejected
  licenseInfo,          \* licenseInfo, {} if fetchLicenseInfo was rejected
  counter,              \* the incrementBy of each incrementCounter call
  enrichedAlerts,       \* enrichedAlerts
  batches,              \* batches
  sent,                 \* the batches sender.sendOnDemand was called with, in order
  acked,                \* how many of those calls have resolved
  result                \* what runTask's promise settled with

uvars == <<allowRepeatedUploads, hasMaxSize, files, fileSizes, att, uploading, error, running,
           abortBuf, nextId, deleted, lastOp, out, calls, completion, batchDones, cyc>>

hvars == <<pc, selfDestructOnAbort, abortedAt, sub, abortReplay, delivered, outcome,
           response, effects>>

tvars == <<maxTelemetryBatch, taskPc, clusterInfo, licenseInfo, counter, enrichedAlerts,
           batches, sent, acked, result>>

vars == <<uvars, hvars, tvars>>

\* ---------------------------------------------------------------- bounds
MaxFiles == 2
MaxIds == 3
MaxAlerts == 3
MaxBatch == 2

\* ---------------------------------------------------------------- values
MaxSizeBytes == 1
Sizes == {MaxSizeBytes, MaxSizeBytes + 1}
NoId == 0
NoError == "undefined"
FileTooLarge == "fileTooLarge"
AbortMessage == "Abort!"
CreateError == "createError"
UploadError == "uploadError"
FileKindId == "kind"

RECURSIVE SeqsUpTo(_, _)
SeqsUpTo(S, n) ==
  IF n = 0 THEN {<<>>}
  ELSE LET shorter == SeqsUpTo(S, n - 1)
       IN shorter \cup {Append(q, x) : q \in {r \in shorter : Len(r) = n - 1}, x \in S}

FileLists == SeqsUpTo(Sizes, MaxFiles)

\* cyc: started = the records whose attempt this cycle began, rejected = those
\* whose create or upload call the backend rejected, atAbort = those that were
\* uploading when abort() was called, dones = done$ emissions with entries,
\* earlierAbort = abort() was called during an earlier cycle over this batch.
NoCycle ==
  [aborted |-> FALSE, rejected |-> {}, dones |-> 0, started |-> {}, atAbort |-> {},
   earlierAbort |-> FALSE]
\* The record of the cycle that follows the one recorded in c.
NextCycle(c) == [NoCycle EXCEPT !.earlierAbort = c.earlierAbort \/ c.aborted]
NotCompleted ==
  [fired |-> FALSE, emitted |-> 0, files |-> <<>>, cyc |-> NoCycle, batchDones |-> 0]
\* att[i]: pc = where record i's uploadFile pipeline waits ("create": for
\* client.create, "race": in the race of line 181, "none": not subscribed or
\* completed); target = uploadTarget.id of its latest attempt.
IdleAttempt == [pc |-> "none", target |-> NoId]

\* ------------------------------------------------- SimpleStateSubject
\* setState(next): the record with the fields of `next` put over its own.
SetState(rec, next) ==
  [k \in DOMAIN rec |-> IF k \in DOMAIN next THEN next[k] ELSE rec[k]]

\* ------------------------------------------------- aggregate derivations
\* Faulty variant: the flag is raised only while every record is uploading.
AnyUploading_All(fs) == \A i \in 1..Len(fs) : fs[i].status = "uploading"

AnyUploading(fs) == \E i \in 1..Len(fs) : fs[i].status = "uploading"

\* Faulty variant: the last record with an error is reported.
ErrorFile_Last(fs) ==
  LET withError == {i \in 1..Len(fs) : fs[i].error # NoError}
  IN IF withError = {} THEN NoError
     ELSE fs[CHOOSE i \in withError : \A j \in withError : i >= j].error

ErrorFile(fs) ==
  LET withError == {i \in 1..Len(fs) : fs[i].error # NoError}
  IN IF withError = {} THEN NoError
     ELSE fs[CHOOSE i \in withError : \A j \in withError : i <= j].error

AllUploaded(fs) == Len(fs) > 0 /\ \A i \in 1..Len(fs) : fs[i].status = "uploaded"

DoneNotification(fs) == [i \in 1..Len(fs) |-> [id |-> fs[i].id, kind |-> FileKindId]]

DoneEmission(fs) ==
  [type |-> "done", defined |-> TRUE, entries |-> DoneNotification(fs), at |-> fs]
DoneUndefined == [type |-> "done", defined |-> FALSE, entries |-> <<>>, at |-> <<>>]
ClearEmission == [type |-> "clear", defined |-> FALSE, entries |-> <<>>, at |-> <<>>]
AbortEmission == [type |-> "abort", defined |-> FALSE, entries |-> <<>>, at |-> <<>>]

\* ------------------------------------------------- the state as a value
\* The operations below are functions from state to state, so that one
\* operation can run inside another (clear inside finalize, catchError inside
\* abort).  Bind(x, F) is F(x) with x evaluated once.
Bind(x, F(_)) == CHOOSE r \in {F(q) : q \in {x}} : TRUE

Cur ==
  [files |-> files, fileSizes |-> fileSizes, att |-> att, uploading |-> uploading, error |-> error,
   running |-> running, abortBuf |-> abortBuf, nextId |-> nextId, deleted |-> deleted,
   out |-> <<>>, calls |-> <<>>, completion |-> NotCompleted,
   batchDones |-> batchDones, cyc |-> cyc, threw |-> FALSE]

Commit(op, i, s) ==
  \E r \in {s} :
    /\ files' = r.files
    /\ fileSizes' = r.fileSizes
    /\ att' = r.att
    /\ uploading' = r.uploading
    /\ error' = r.error
    /\ running' = r.running
    /\ abortBuf' = r.abortBuf
    /\ nextId' = r.nextId
    /\ deleted' = r.deleted
    /\ out' = r.out
    /\ calls' = r.calls
    /\ completion' = r.completion
    /\ batchDones' = r.batchDones
    /\ cyc' = r.cyc
    /\ lastOp' = [op |-> op, i |-> i, ret |-> IF r.threw THEN "throw" ELSE "ok"]
    /\ UNCHANGED <<allowRepeatedUploads, hasMaxSize, hvars, tvars>>

Throw(s) == [s EXCEPT !.threw = TRUE]

\* Faulty variant: the error derivation has no filter(Boolean), so error$
\* follows the records back to undefined.
Emit_NoFilter(s0) ==
  Bind(s0, LAMBDA s :
    IF Len(s.files) = 0 THEN s
    ELSE LET d == AllUploaded(s.files)
         IN [s EXCEPT !.uploading = AnyUploading(s.files),
                      !.error = ErrorFile(s.files),
                      !.out = IF d THEN Append(@, DoneEmission(s.files)) ELSE @,
                      !.batchDones = IF d THEN @ + 1 ELSE @,
                      !.cyc.dones = IF d /\ s.running THEN @ + 1 ELSE @])

\* One emission of latestFiles$ reaching its three subscribers.  combineLatest
\* of an empty list completes without emitting, so an empty batch updates nothing.
Emit(s0) ==
  Bind(s0, LAMBDA s :
    IF Len(s.files) = 0 THEN s
    ELSE LET e == ErrorFile(s.files)
             d == AllUploaded(s.files)
         IN [s EXCEPT !.uploading = AnyUploading(s.files),
                      !.error = IF e # NoError THEN e ELSE @,
                      !.out = IF d THEN Append(@, DoneEmission(s.files)) ELSE @,
                      !.batchDones = IF d THEN @ + 1 ELSE @,
                      !.cyc.dones = IF d /\ s.running THEN @ + 1 ELSE @])

\* ------------------------------------------------- isUploading / validateFiles
\* Faulty variant: the query always answers that nothing is in progress.
isUploading_Never(s) == FALSE

isUploading(s) == s.uploading

\* Faulty variant: only the first file's size is looked at.
validateFiles_FirstOnly(F) ==
  IF hasMaxSize /\ Len(F) > 0 /\ F[1] > MaxSizeBytes THEN FileTooLarge ELSE NoError

validateFiles(F) ==
  IF hasMaxSize /\ \E i \in 1..Len(F) : F[i] > MaxSizeBytes THEN FileTooLarge ELSE NoError

\* The file handle is opaque to the coordinator once validateFiles has read
\* its size, so the record keeps the other three fields.
NewFileState(validationError) ==
  [status |-> "idle", id |-> NoId, error |-> validationError]

\* ------------------------------------------------- setFiles / clear
\* Lines 118-133, after the guard.
replaceFiles(s0, F) ==
  Bind(s0, LAMBDA s :
    LET s1 == IF Len(F) = 0
              THEN [s EXCEPT !.out = Append(@, DoneUndefined), !.error = NoError]
              ELSE s
        validationError == validateFiles(F)
    IN Emit([s1 EXCEPT !.files = [i \in 1..Len(F) |-> NewFileState(validationError)],
                       !.fileSizes = {F[i] : i \in 1..Len(F)},
                       !.att = [i \in 1..Len(F) |-> IdleAttempt],
                       !.batchDones = 0,
                       !.cyc = NoCycle]))

\* Faulty variant: the isUploading() guard of line 114 is missing.
setFiles_Unguarded(s0, F) == replaceFiles(s0, F)

setFiles(s0, F) ==
  Bind(s0, LAMBDA s : IF isUploading(s) THEN Throw(s) ELSE replaceFiles(s, F))

\* Faulty variant: nothing is emitted on clear$.
clear_Silent(s0) == setFiles(s0, <<>>)

clear(s0) ==
  Bind(setFiles(s0, <<>>), LAMBDA s1 :
    IF s1.threw THEN s1 ELSE [s1 EXCEPT !.out = Append(@, ClearEmission)])

\* ------------------------------------------------- upload$'s completion
\* Faulty variant: the aggregate completes with the first attempt that does.
forkJoinDone_First(s) == \E i \in 1..Len(s.att) : s.att[i].pc = "none"

\* forkJoin has seen every inner observable complete.
forkJoinDone(s) == \A i \in 1..Len(s.att) : s.att[i].pc = "none"

\* Faulty variant: finalize only unsubscribes; the option is ignored.
finalizeUpload_NoClear(s0) == [s0 EXCEPT !.running = FALSE]

\* finalize of line 225.  A clear() that threw would skip the unsubscribe.
finalizeUpload(s0) ==
  Bind(IF allowRepeatedUploads THEN clear(s0) ELSE s0, LAMBDA s1 :
    IF s1.threw THEN s1 ELSE [s1 EXCEPT !.running = FALSE])

\* upload$ emits (forkJoin of an empty list completes without a value),
\* completes, and finalize runs.
completeUpload(s0) ==
  Bind(s0, LAMBDA s :
    IF s.running /\ forkJoinDone(s)
    THEN finalizeUpload([s EXCEPT !.completion =
           [fired |-> TRUE, emitted |-> IF Len(s.files) > 0 THEN 1 ELSE 0,
            files |-> s.files, cyc |-> s.cyc, batchDones |-> s.batchDones]])
    ELSE s)

\* ------------------------------------------------- uploadFile
\* Faulty variant: the status check of line 160 lets uploaded records through.
Startable_Uploaded(status) == status \in {"idle", "upload_failed", "uploaded"}

\* Faulty variant: a failed record is not taken up again.
Startable_IdleOnly(status) == status = "idle"

Startable(status) == status \in {"idle", "upload_failed"}

\* Lines 157-177: the synchronous head of uploadFile for record i.
startFile(s0, i) ==
  Bind(s0, LAMBDA s :
    IF ~Startable(s.files[i].status) THEN s
    ELSE Bind(Emit([s EXCEPT !.files[i] =
                      SetState(@, [status |-> "uploading", error |-> NoError])]),
              LAMBDA s1 :
                [s1 EXCEPT !.att[i] = [pc |-> "create", target |-> NoId],
                           !.calls = Append(@, <<"create", i>>),
                           !.cyc.started = @ \cup {i}]))

\* Faulty variant: the placeholder is deleted however the attempt ended.
finalizeFile_Always(s0, erroredOrAborted, uploadTarget) ==
  IF uploadTarget # NoId
  THEN [s0 EXCEPT !.calls = Append(@, <<"delete", uploadTarget>>),
                  !.deleted = @ \cup {uploadTarget}]
  ELSE s0

\* finalize of uploadFile: the orphan's delete, fire and forget.
finalizeFile(s0, erroredOrAborted, uploadTarget) ==
  Bind(s0, LAMBDA s :
    IF erroredOrAborted /\ uploadTarget # NoId
    THEN [s EXCEPT !.calls = Append(@, <<"delete", uploadTarget>>),
                   !.deleted = @ \cup {uploadTarget}]
    ELSE s)

\* The pipeline of record i ends with the record set to `next`: the setState,
\* the attempt's completion, its finalize, and forkJoin's look at the rest.
settleFile(s0, i, next, erroredOrAborted) ==
  Bind(s0, LAMBDA s :
    Bind(Emit([s EXCEPT !.files[i] = SetState(@, next)]), LAMBDA s1 :
      completeUpload(finalizeFile([s1 EXCEPT !.att[i].pc = "none"],
                                  erroredOrAborted, s.att[i].target))))

\* Faulty variant: the identifier is not stored with the status.
fileUploaded_NoId(s0, i) == settleFile(s0, i, [status |-> "uploaded"], FALSE)

\* map of line 196: the transfer succeeded.
fileUploaded(s0, i) ==
  Bind(s0, LAMBDA s :
    settleFile(s, i, [status |-> "uploaded", id |-> s.att[i].target], FALSE))

\* Faulty variant: the cancellation is not told apart from a transfer error.
fileFailed_AbortAsError(s0, i, e) ==
  settleFile(s0, i, [status |-> "upload_failed", error |-> e], TRUE)

\* Faulty variant: the error is rethrown, and forkJoin unsubscribes from the
\* sibling attempts and ends.
fileFailed_Rethrows(s0, i, e) ==
  Bind(s0, LAMBDA s :
    settleFile([s EXCEPT !.att = [k \in 1..Len(s.att) |->
                                    IF k = i THEN s.att[k] ELSE [s.att[k] EXCEPT !.pc = "none"]]],
               i, [status |-> "upload_failed",
                   error |-> IF e = AbortMessage THEN NoError ELSE e], TRUE))

\* Faulty variant: a failed attempt puts the record back to idle.
fileFailed_ToIdle(s0, i, e) ==
  settleFile(s0, i, [status |-> "idle",
                     error |-> IF e = AbortMessage THEN NoError ELSE e], TRUE)

\* catchError of line 199, with e the error's message.
fileFailed(s0, i, e) ==
  LET isAbortError == e = AbortMessage
  IN settleFile(s0, i, [status |-> "upload_failed",
                        error |-> IF isAbortError THEN NoError ELSE e], TRUE)

\* Faulty variant: the cycle's abort subject replays nothing to a late
\* subscriber, so an abort that came before create returned is lost.
createResolved_NoReplay(s0, i, id) ==
  [s0 EXCEPT !.att[i] = [pc |-> "race", target |-> id],
             !.calls = Append(@, <<"upload", i>>),
             !.nextId = id]

\* mergeMap of line 179: create resolved with a file of identifier id.  The
\* arguments of race are evaluated first, so client.upload is called; then race
\* subscribes to abort$, whose replayed value throws at once.
createResolved(s0, i, id) ==
  Bind([s0 EXCEPT !.att[i] = [pc |-> "race", target |-> id],
                  !.calls = Append(@, <<"upload", i>>),
                  !.nextId = id],
       LAMBDA s1 : IF s1.abortBuf THEN fileFailed(s1, i, AbortMessage) ELSE s1)

\* ------------------------------------------------- upload
\* files$.map((file$) => this.uploadFile(...)): every head runs before forkJoin
\* subscribes to anything.
RECURSIVE uploadFiles(_, _)
uploadFiles(s0, i) ==
  Bind(s0, LAMBDA s :
    IF i > Len(s.files) THEN s ELSE uploadFiles(startFile(s, i), i + 1))

\* Faulty variant: one abort subject serves every cycle, so the abort buffered
\* in an earlier cycle is still replayed.
startCycle_SharedAbort(s0) ==
  completeUpload(uploadFiles([s0 EXCEPT !.running = TRUE,
                                        !.cyc = NextCycle(s0.cyc)], 1))

\* Lines 217-232: a new ReplaySubject, subscribed to abort$, and the cycle.
startCycle(s0) ==
  completeUpload(uploadFiles([s0 EXCEPT !.abortBuf = FALSE,
                                        !.running = TRUE,
                                        !.cyc = NextCycle(s0.cyc)], 1))

\* Faulty variant: the isUploading() guard of line 214 is missing.
upload_Unguarded(s0) == startCycle(s0)

upload(s0) ==
  Bind(s0, LAMBDA s : IF isUploading(s) THEN Throw(s) ELSE startCycle(s))

\* ------------------------------------------------- abort
\* Faulty variant: the abort reaches every attempt of the cycle that obtained
\* an id, those that have already completed included.
RECURSIVE abortRaces_All(_, _)
abortRaces_All(s0, i) ==
  Bind(s0, LAMBDA s :
    IF i > Len(s.att) THEN s
    ELSE abortRaces_All(IF s.att[i].target # NoId THEN fileFailed(s, i, AbortMessage) ELSE s,
                        i + 1))

\* The cycle's ReplaySubject buffers the value, then notifies the races that
\* are subscribed to it; each of them throws 'Abort!'.
RECURSIVE abortRaces(_, _)
abortRaces(s0, i) ==
  Bind(s0, LAMBDA s :
    IF i > Len(s.att) THEN s
    ELSE abortRaces(IF s.att[i].pc = "race" THEN fileFailed(s, i, AbortMessage) ELSE s,
                    i + 1))

\* Line 140: abort$.next(), which reaches the ReplaySubject while sub is subscribed.
signalAbort(s0) ==
  Bind(s0, LAMBDA s :
    Bind([s EXCEPT !.out = Append(@, AbortEmission),
                   !.cyc.aborted = TRUE,
                   !.cyc.atAbort = @ \cup {i \in 1..Len(s.files) :
                                             s.files[i].status = "uploading"}],
         LAMBDA s1 :
           IF s1.running THEN abortRaces([s1 EXCEPT !.abortBuf = TRUE], 1) ELSE s1))

\* Faulty variant: the isUploading() guard of line 137 is missing.
abort_Unguarded(s0) == signalAbort(s0)

abort(s0) ==
  Bind(s0, LAMBDA s : IF ~isUploading(s) THEN Throw(s) ELSE signalAbort(s))

\* ------------------------------------------------- the state machine
\* No request has reached the handler.
NoRequest ==
  /\ pc = "new"
  /\ selfDestructOnAbort = "undefined"
  /\ abortedAt = "never"
  /\ sub = "none"
  /\ abortReplay = FALSE
  /\ delivered = FALSE
  /\ outcome = "none"
  /\ response = [kind |-> "none", statusCode |-> 0, size |-> 0, message |-> ""]
  /\ effects = <<>>

\* {} as ESClusterInfo and {} as ESLicense: every field reads undefined.
EmptyClusterInfo == [cluster_uuid |-> "undefined", cluster_name |-> "undefined"]
EmptyLicense == [uid |-> "undefined"]
Pending == [settled |-> "pending", value |-> 0]

\* The task has not been run.
NoRun ==
  /\ maxTelemetryBatch = 1
  /\ taskPc = "new"
  /\ clusterInfo = EmptyClusterInfo
  /\ licenseInfo = EmptyLicense
  /\ counter = <<>>
  /\ enrichedAlerts = <<>>
  /\ batches = <<>>
  /\ sent = <<>>
  /\ acked = 0
  /\ result = Pending

\* No UploadState is in use.
NoUpload ==
  /\ allowRepeatedUploads = FALSE
  /\ hasMaxSize = FALSE
  /\ files = <<>>
  /\ fileSizes = {}
  /\ att = <<>>
  /\ uploading = FALSE
  /\ error = NoError
  /\ running = FALSE
  /\ abortBuf = FALSE
  /\ nextId = NoId
  /\ deleted = {}
  /\ lastOp = [op |-> "new", i |-> 0, ret |-> "ok"]
  /\ out = <<>>
  /\ calls = <<>>
  /\ completion = NotCompleted
  /\ batchDones = 0
  /\ cyc = NoCycle

Init ==
  /\ NoRequest
  /\ NoRun
  /\ allowRepeatedUploads \in BOOLEAN
  /\ hasMaxSize \in BOOLEAN
  /\ files = <<>>
  /\ fileSizes = {}
  /\ att = <<>>
  /\ uploading = FALSE
  /\ error = NoError
  /\ running = FALSE
  /\ abortBuf = FALSE
  /\ nextId = NoId
  /\ deleted = {}
  /\ lastOp = [op |-> "new", i |-> 0, ret |-> "ok"]
  /\ out = <<>>
  /\ calls = <<>>
  /\ completion = NotCompleted
  /\ batchDones = 0
  /\ cyc = NoCycle

NumStartable == Cardinality({i \in 1..Len(files) : Startable(files[i].status)})

SetFiles(F) ==
  /\ F \in FileLists
  /\ Commit("setFiles", 0, setFiles(Cur, F))

Upload ==
  /\ uploading \/ nextId + NumStartable <= MaxIds
  /\ Commit("upload", 0, upload(Cur))

Abort ==
  /\ TRUE
  /\ Commit("abort", 0, abort(Cur))

Clear ==
  /\ TRUE
  /\ Commit("clear", 0, clear(Cur))

CreateResolve(i) ==
  /\ i <= Len(att)
  /\ att[i].pc = "create"
  /\ Commit("createResolve", i, createResolved(Cur, i, nextId + 1))

CreateReject(i) ==
  /\ i <= Len(att)
  /\ att[i].pc = "create"
  /\ Commit("createReject", i, fileFailed([Cur EXCEPT !.cyc.rejected = @ \cup {i}], i, CreateError))

UploadResolve(i) ==
  /\ i <= Len(att)
  /\ att[i].pc = "race"
  /\ Commit("uploadResolve", i, fileUploaded(Cur, i))

UploadReject(i) ==
  /\ i <= Len(att)
  /\ att[i].pc = "race"
  /\ Commit("uploadReject", i, fileFailed([Cur EXCEPT !.cyc.rejected = @ \cup {i}], i, UploadError))

Next ==
  \/ \E F \in FileLists : SetFiles(F)
  \/ Upload
  \/ Abort
  \/ Clear
  \/ \E i \in 1..MaxFiles : CreateResolve(i)
  \/ \E i \in 1..MaxFiles : CreateReject(i)
  \/ \E i \in 1..MaxFiles : UploadResolve(i)
  \/ \E i \in 1..MaxFiles : UploadReject(i)

Spec == Init /\ [][Next]_vars

\* Every create and every upload call the backend has received is answered.
Responses(i) == CreateResolve(i) \/ CreateReject(i) \/ UploadResolve(i) \/ UploadReject(i)

LiveSpec == Spec /\ \A i \in 1..MaxFiles : WF_vars(Responses(i))

TypeOK ==
  /\ Len(files) = Len(att)
  /\ Len(files) <= MaxFiles
  /\ nextId \in 0..MaxIds
  /\ \A i \in 1..Len(files) :
       /\ files[i].status \in {"idle", "uploading", "uploaded", "upload_failed"}
       /\ att[i].pc \in {"none", "create", "race"}
       /\ (att[i].pc # "none") = (files[i].status = "uploading")

\* ================================================= the upload route handler
\* schema.maybe(schema.boolean()), as the strings of its three values.
QueryFlags == {"true", "false", "undefined"}

ContentAlreadyUploadedError == "ContentAlreadyUploadedError"
UploadInProgressError == "UploadInProgressError"
AbortedUploadError == "AbortedUploadError"
OtherError == "Error"
UploadContentErrors ==
  {ContentAlreadyUploadedError, UploadInProgressError, AbortedUploadError, OtherError}

Ok(size) == [kind |-> "ok", statusCode |-> 200, size |-> size, message |-> ""]
BadRequest(message) == [kind |-> "badRequest", statusCode |-> 400, size |-> 0, message |-> message]
CustomError(message, statusCode) ==
  [kind |-> "customError", statusCode |-> statusCode, size |-> 0, message |-> message]
LookupError == [kind |-> "lookupError", statusCode |-> 0, size |-> 0, message |-> ""]
Rethrown(e) == [kind |-> "throw", statusCode |-> 0, size |-> 0, message |-> e]
NoResponse == [kind |-> "none", statusCode |-> 0, size |-> 0, message |-> ""]

\* Faulty variant: abort$ is a plain Subject, which replays nothing.
Replayed_Subject(buffer) == FALSE

\* What a ReplaySubject gives a new subscriber at once: its buffer.
Replayed(buffer) == buffer

\* Faulty variant: an aborted upload's file is deleted whatever the query says.
catchUploadContent_AlwaysDeletes(e, flag) ==
  IF e \in {ContentAlreadyUploadedError, UploadInProgressError}
  THEN [response |-> BadRequest(e), effects |-> <<>>]
  ELSE IF e = AbortedUploadError
  THEN [response |-> CustomError(e, 499),
        effects |-> <<"usageCounter", "logger.error", "logger.info", "file.delete">>]
  ELSE [response |-> Rethrown(e), effects |-> <<>>]

\* The catch block: the response (or the rethrown error) and the calls made.
catchUploadContent(e, flag) ==
  IF e \in {ContentAlreadyUploadedError, UploadInProgressError}
  THEN [response |-> BadRequest(e), effects |-> <<>>]
  ELSE IF e = AbortedUploadError
  THEN [response |-> CustomError(e, 499),
        effects |-> <<"usageCounter", "logger.error">>
                      \o (IF flag = "true" THEN <<"logger.info", "file.delete">> ELSE <<>>)]
  ELSE [response |-> Rethrown(e), effects |-> <<>>]

HandlerInit ==
  /\ pc = "new"
  /\ selfDestructOnAbort \in QueryFlags
  /\ abortedAt = "never"
  /\ sub = "none"
  /\ abortReplay = FALSE
  /\ delivered = FALSE
  /\ outcome = "none"
  /\ response = NoResponse
  /\ effects = <<>>
  /\ NoRun
  /\ NoUpload

\* Lines 44-47: the ReplaySubject, its subscription, and the first await.
HandlerStart ==
  /\ pc = "new"
  /\ pc' = "files"
  /\ sub' = "subscribed"
  /\ UNCHANGED <<selfDestructOnAbort, abortedAt, abortReplay, delivered, outcome, response,
                  effects>>
  /\ UNCHANGED <<uvars, tvars>>

\* The client goes away: req.events.aborted$ emits, once, before the handler
\* runs or while it is suspended.  abort$ buffers it if sub is subscribed (an
\* event before the subscription is missed, lines 41-43), and passes it on to
\* uploadContent if that is running.
RequestAborted ==
  /\ pc \in {"new", "files", "getById", "uploadContent"}
  /\ abortedAt = "never"
  /\ abortedAt' = pc
  /\ abortReplay' = (abortReplay \/ sub = "subscribed")
  /\ delivered' = (delivered \/ (sub = "subscribed" /\ pc = "uploadContent"))
  /\ UNCHANGED <<pc, selfDestructOnAbort, sub, outcome, response, effects>>
  /\ UNCHANGED <<uvars, tvars>>

\* Lines 47-53: files resolved; getById is awaited.
FilesResolved ==
  /\ pc = "files"
  /\ pc' = "getById"
  /\ UNCHANGED <<selfDestructOnAbort, abortedAt, sub, abortReplay, delivered, outcome,
                  response, effects>>
  /\ UNCHANGED <<uvars, tvars>>

\* Lines 53-54: getById answered with an error, which is returned.
GetByIdError ==
  /\ pc = "getById"
  /\ pc' = "done"
  /\ response' = LookupError
  /\ UNCHANGED <<selfDestructOnAbort, abortedAt, sub, abortReplay, delivered, outcome, effects>>
  /\ UNCHANGED <<uvars, tvars>>

\* Lines 53-56: getById answered with the file; uploadContent is called with
\* abort$ and awaited.
GetByIdFile ==
  /\ pc = "getById"
  /\ pc' = "uploadContent"
  /\ delivered' = Replayed(abortReplay)
  /\ UNCHANGED <<selfDestructOnAbort, abortedAt, sub, abortReplay, outcome, response, effects>>
  /\ UNCHANGED <<uvars, tvars>>

\* Lines 56, 75-79: uploadContent resolved; finally, then the ok response.
UploadContentResolved(size) ==
  /\ pc = "uploadContent"
  /\ pc' = "done"
  /\ sub' = "unsubscribed"
  /\ outcome' = "resolved"
  /\ response' = Ok(size)
  /\ UNCHANGED <<selfDestructOnAbort, abortedAt, abortReplay, delivered, effects>>
  /\ UNCHANGED <<uvars, tvars>>

\* Lines 57-77: uploadContent rejected with e; catch, then finally.  The
\* upload is aborted only by an abort it was handed.
UploadContentRejected(e) ==
  /\ pc = "uploadContent"
  /\ e = AbortedUploadError => delivered
  /\ pc' = "done"
  /\ outcome' = e
  /\ response' = catchUploadContent(e, selfDestructOnAbort).response
  /\ effects' = effects \o catchUploadContent(e, selfDestructOnAbort).effects
  /\ sub' = "unsubscribed"
  /\ UNCHANGED <<selfDestructOnAbort, abortedAt, abortReplay, delivered>>
  /\ UNCHANGED <<uvars, tvars>>

HandlerNext ==
  \/ HandlerStart
  \/ RequestAborted
  \/ FilesResolved
  \/ GetByIdError
  \/ GetByIdFile
  \/ \E size \in Sizes : UploadContentResolved(size)
  \/ \E e \in UploadContentErrors : UploadContentRejected(e)

HandlerSpec == HandlerInit /\ [][HandlerNext]_vars

HandlerTypeOK ==
  /\ pc \in {"new", "files", "getById", "uploadContent", "done"}
  /\ sub \in {"none", "subscribed", "unsubscribed"}
  /\ abortedAt \in {"never", "new", "files", "getById", "uploadContent"}
  /\ outcome \in {"none", "resolved"} \cup UploadContentErrors
  /\ response.kind \in {"none", "ok", "badRequest", "customError", "lookupError", "throw"}

\* ================================================= runTask (prebuilt rule alerts)
ClusterInfoValue == [cluster_uuid |-> "uuid", cluster_name |-> "name"]
LicenseValue == [uid |-> "uid"]
Settlements == {"fulfilled", "rejected"}

Fulfilled(value) == [settled |-> "fulfilled", value |-> value]

\* Lines 60-72: alert k of the page, reduced to its allowlisted fields and
\* enriched with the licence and cluster fields.
EnrichedAlert(k, license, cluster) ==
  [event |-> k, licence_id |-> license.uid,
   cluster_uuid |-> cluster.cluster_uuid, cluster_name |-> cluster.cluster_name]

\* ../helpers: the records cut into consecutive batches of batchSize.
RECURSIVE batchTelemetryRecords(_, _)
batchTelemetryRecords(telemetryRecords, batchSize) ==
  IF Len(telemetryRecords) = 0 THEN <<>>
  ELSE IF Len(telemetryRecords) <= batchSize THEN <<telemetryRecords>>
  ELSE <<SubSeq(telemetryRecords, 1, batchSize)>>
         \o batchTelemetryRecords(SubSeq(telemetryRecords, batchSize + 1, Len(telemetryRecords)),
                                  batchSize)

TaskInit ==
  /\ maxTelemetryBatch \in 1..MaxBatch
  /\ taskPc = "new"
  /\ clusterInfo = EmptyClusterInfo
  /\ licenseInfo = EmptyLicense
  /\ counter = <<>>
  /\ enrichedAlerts = <<>>
  /\ batches = <<>>
  /\ sent = <<>>
  /\ acked = 0
  /\ result = Pending
  /\ NoRequest
  /\ NoUpload

\* Lines 31-35: both fetches are started and awaited together.
RunTask ==
  /\ taskPc = "new"
  /\ taskPc' = "allSettled"
  /\ UNCHANGED <<maxTelemetryBatch, clusterInfo, licenseInfo, counter, enrichedAlerts, batches,
                 sent, acked, result>>
  /\ UNCHANGED <<uvars, hvars>>

\* Lines 32-47: Promise.allSettled resolved, with fetchClusterInfo settled as c
\* and fetchLicenseInfo as l; fetchPrebuiltRuleAlerts is awaited.
InfoSettled(c, l) ==
  /\ taskPc = "allSettled"
  /\ taskPc' = "fetchPrebuiltRuleAlerts"
  /\ clusterInfo' = IF c = "fulfilled" THEN ClusterInfoValue ELSE EmptyClusterInfo
  /\ licenseInfo' = IF l = "fulfilled" THEN LicenseValue ELSE EmptyLicense
  /\ UNCHANGED <<maxTelemetryBatch, counter, enrichedAlerts, batches, sent, acked, result>>
  /\ UNCHANGED <<uvars, hvars>>

\* Lines 46-58 and 60-77: fetchPrebuiltRuleAlerts resolved with n events.
\* The counter is incremented; no events: return 0; otherwise the alerts are
\* enriched and batched and the first batch is handed to sendOnDemand.
AlertsResolved(n) ==
  /\ taskPc = "fetchPrebuiltRuleAlerts"
  /\ counter' = Append(counter, n)
  /\ IF n = 0
     THEN /\ taskPc' = "done"
          /\ result' = Fulfilled(0)
          /\ UNCHANGED <<enrichedAlerts, batches, sent>>
     ELSE /\ taskPc' = "sendOnDemand"
          /\ enrichedAlerts' = [k \in 1..n |-> EnrichedAlert(k, licenseInfo, clusterInfo)]
          /\ batches' = batchTelemetryRecords(enrichedAlerts', maxTelemetryBatch)
          /\ sent' = <<batches'[1]>>
          /\ UNCHANGED result
  /\ UNCHANGED <<maxTelemetryBatch, clusterInfo, licenseInfo, acked>>
  /\ UNCHANGED <<uvars, hvars>>

\* Lines 46-47 and 81-84: fetchPrebuiltRuleAlerts rejected; catch returns 0.
AlertsRejected ==
  /\ taskPc = "fetchPrebuiltRuleAlerts"
  /\ taskPc' = "done"
  /\ result' = Fulfilled(0)
  /\ UNCHANGED <<maxTelemetryBatch, clusterInfo, licenseInfo, counter, enrichedAlerts, batches,
                 sent, acked>>
  /\ UNCHANGED <<uvars, hvars>>

\* Faulty variant: a rejected send is swallowed and the loop goes on.
SendRejected_Continues ==
  /\ taskPc = "sendOnDemand"
  /\ IF Len(sent) < Len(batches)
     THEN /\ sent' = Append(sent, batches[Len(sent) + 1])
          /\ UNCHANGED <<taskPc, result>>
     ELSE /\ taskPc' = "done"
          /\ result' = Fulfilled(Len(enrichedAlerts))
          /\ UNCHANGED sent
  /\ UNCHANGED <<maxTelemetryBatch, clusterInfo, licenseInfo, counter, enrichedAlerts, batches,
                 acked>>
  /\ UNCHANGED <<uvars, hvars>>

\* Lines 76-80: the awaited sendOnDemand resolved; the next batch is sent, or
\* the number of enriched alerts is returned.
SendResolved ==
  /\ taskPc = "sendOnDemand"
  /\ acked' = acked + 1
  /\ IF Len(sent) < Len(batches)
     THEN /\ sent' = Append(sent, batches[Len(sent) + 1])
          /\ UNCHANGED <<taskPc, result>>
     ELSE /\ taskPc' = "done"
          /\ result' = Fulfilled(Len(enrichedAlerts))
          /\ UNCHANGED sent
  /\ UNCHANGED <<maxTelemetryBatch, clusterInfo, licenseInfo, counter, enrichedAlerts, batches>>
  /\ UNCHANGED <<uvars, hvars>>

\* Lines 77 and 81-84: the awaited sendOnDemand rejected; catch returns 0.
SendRejected ==
  /\ taskPc = "sendOnDemand"
  /\ taskPc' = "done"
  /\ result' = Fulfilled(0)
  /\ UNCHANGED <<maxTelemetryBatch, clusterInfo, licenseInfo, counter, enrichedAlerts, batches,
                 sent, acked>>
  /\ UNCHANGED <<uvars, hvars>>

TaskNext ==
  \/ RunTask
  \/ \E c \in Settlements, l \in Settlements : InfoSettled(c, l)
  \/ \E n \in 0..MaxAlerts : AlertsResolved(n)
  \/ AlertsRejected
  \/ SendResolved
  \/ SendRejected

TaskSpec == TaskInit /\ [][TaskNext]_vars

TaskTypeOK ==
  /\ taskPc \in {"new", "allSettled", "fetchPrebuiltRuleAlerts", "sendOnDemand", "done"}
  /\ Len(enrichedAlerts) <= MaxAlerts
  /\ acked \in 0..Len(batches)
  /\ result.settled \in {"pending", "fulfilled", "rejected"}

\* ================================================================ claims
Core == <<files, fileSizes, att, uploading, error, running, abortBuf, nextId, deleted, batchDones>>

Quiet == out' = <<>> /\ calls' = <<>> /\ ~completion'.fired

Oversized == hasMaxSize /\ \E size \in fileSizes : size > MaxSizeBytes

Dones(o) == SelectSeq(o, LAMBDA e : e.type = "done" /\ e.defined)

\* C1: setFiles called while isUploading() is true throws and changes nothing:
\* not the batch, no record, not uploading$ or error$, and nothing is emitted
\* on done$ or clear$.
C1_SetFilesWhileUploading ==
  [][(lastOp'.op = "setFiles" /\ uploading)
       => (lastOp'.ret = "throw" /\ UNCHANGED Core /\ Quiet)]_vars

C1_Witness ==
  /\ lastOp.op = "setFiles" /\ lastOp.ret = "throw"
  /\ uploading /\ Len(files) = MaxFiles

\* C2 as claimed: after setFiles of a batch with an oversized file every record
\* has status upload_failed and the size-limit error, and no backend call was made.
C2_Claimed ==
  (lastOp.op = "setFiles" /\ lastOp.ret = "ok" /\ Oversized)
    => /\ \A i \in 1..Len(files) :
            files[i].status = "upload_failed" /\ files[i].error = FileTooLarge
       /\ calls = <<>>

\* C2 amended: after setFiles of a batch with an oversized file every record
\* carries the size-limit error, its status is idle, and no backend call was made.
C2_OversizedBatch ==
  (lastOp.op = "setFiles" /\ lastOp.ret = "ok" /\ Oversized)
    => /\ \A i \in 1..Len(files) :
            files[i].status = "idle" /\ files[i].error = FileTooLarge
       /\ calls = <<>>

C2_Witness ==
  /\ lastOp.op = "setFiles" /\ lastOp.ret = "ok"
  /\ Len(files) = MaxFiles
  /\ fileSizes = Sizes
  /\ Oversized

\* C3: a cycle over N >= 1 files in which no backend call was rejected and
\* abort was not called completes after emitting once, with every record
\* uploaded and exactly one done notification for the batch, of N {id, kind}
\* entries.
C3_AllSucceed ==
  (/\ completion.fired
   /\ Len(completion.files) >= 1
   /\ ~completion.cyc.aborted
   /\ completion.cyc.rejected = {})
    => /\ completion.emitted = 1
       /\ \A i \in 1..Len(completion.files) : completion.files[i].status = "uploaded"
       /\ completion.batchDones = 1
       /\ completion.cyc.started # {} =>
            /\ completion.cyc.dones = 1
            /\ Len(Dones(out)) = 1
            /\ Len(Dones(out)[1].entries) = Len(completion.files)
            /\ \A i \in 1..Len(completion.files) :
                 /\ Dones(out)[1].entries[i].id = completion.files[i].id
                 /\ Dones(out)[1].entries[i].id # NoId
                 /\ Dones(out)[1].entries[i].kind = FileKindId

C3_Witness ==
  /\ completion.fired
  /\ Len(completion.files) = MaxFiles
  /\ completion.cyc.started = 1..MaxFiles
  /\ ~completion.cyc.aborted
  /\ completion.cyc.rejected = {}
  /\ ~allowRepeatedUploads
  /\ ~Oversized
  /\ lastOp.op = "uploadResolve" /\ lastOp.i = 1

\* C4: a cycle in which exactly one record's backend call was rejected and
\* abort was not called ends with that record upload_failed and carrying the
\* error, every other record uploaded, and no done notification.
C4_OneRejected ==
  (/\ completion.fired
   /\ ~completion.cyc.aborted
   /\ Cardinality(completion.cyc.rejected) = 1)
    => /\ \A i \in 1..Len(completion.files) :
            IF i \in completion.cyc.rejected
            THEN /\ completion.files[i].status = "upload_failed"
                 /\ completion.files[i].error \in {CreateError, UploadError}
            ELSE completion.files[i].status = "uploaded"
       /\ completion.cyc.dones = 0
       /\ completion.batchDones = 0
       /\ Dones(out) = <<>>

C4_Witness ==
  /\ completion.fired
  /\ Len(completion.files) = MaxFiles
  /\ completion.cyc.started = 1..MaxFiles
  /\ ~completion.cyc.aborted
  /\ completion.cyc.rejected = {1}
  /\ lastOp.op = "uploadResolve" /\ lastOp.i = MaxFiles

\* Record i as the step left it: in the batch, or in the batch as it was when
\* upload$ completed (finalize may have cleared it since).
Post(i) == IF completion'.fired THEN completion'.files[i] ELSE files'[i]

Issued(call) == \E k \in 1..Len(calls') : calls'[k] = call

Settled(i) == i <= Len(files) /\ files[i].status # "uploading"

C5_AbortedRecords ==
  \A i \in cyc.atAbort :
    Settled(i) =>
      /\ files[i].status = "upload_failed"
      /\ files[i].error = IF i \in cyc.rejected THEN CreateError ELSE NoError
      /\ att[i].target # NoId => att[i].target \in deleted

C5_AbortStep ==
  (lastOp'.op = "abort" /\ lastOp'.ret = "ok") =>
    /\ \A i \in 1..Len(files) :
         /\ att[i].pc = "race" =>
              /\ Post(i).status = "upload_failed"
              /\ Post(i).error = NoError
              /\ Issued(<<"delete", att[i].target>>)
         /\ att[i].pc = "create" => files'[i] = files[i] /\ att'[i] = att[i]
    /\ error' \in {error, NoError}

C5_CreateAfterAbort ==
  (abortBuf /\ lastOp'.op \in {"createResolve", "createReject"}) =>
    /\ Post(lastOp'.i).status = "upload_failed"
    /\ IF lastOp'.op = "createResolve"
       THEN /\ Post(lastOp'.i).error = NoError
            /\ Issued(<<"delete", nextId'>>)
            /\ error' \in {error, NoError}
       ELSE /\ Post(lastOp'.i).error = CreateError
            /\ \A id \in 1..MaxIds : ~Issued(<<"delete", id>>)

C6_AbortWhileIdle ==
  [][(lastOp'.op = "abort" /\ ~uploading)
       => (lastOp'.ret = "throw" /\ UNCHANGED Core /\ Quiet)]_vars

C6_Witness ==
  /\ lastOp.op = "abort" /\ lastOp.ret = "throw"
  /\ ~uploading
  /\ \E i \in 1..Len(files) : files[i].status = "uploaded"

\* C7 as claimed: clear() succeeds in every state, leaving the batch empty,
\* error$ undefined, done$ reset and clear$ notified.
C7_Claimed ==
  lastOp.op = "clear" =>
    /\ lastOp.ret = "ok"
    /\ files = <<>>
    /\ error = NoError
    /\ out = <<DoneUndefined, ClearEmission>>

\* C7 amended: clear() succeeds exactly when isUploading() is false, and then
\* leaves the batch empty, error$ undefined, done$ reset (undefined emitted)
\* and clear$ notified; while isUploading() is true it throws and changes
\* nothing.
C7_Clear ==
  [][lastOp'.op = "clear" =>
       IF uploading
       THEN lastOp'.ret = "throw" /\ UNCHANGED Core /\ Quiet
       ELSE /\ lastOp'.ret = "ok"
            /\ files' = <<>>
            /\ error' = NoError
            /\ ~uploading'
            /\ out' = <<DoneUndefined, ClearEmission>>]_vars

C7_Witness ==
  /\ lastOp.op = "clear" /\ lastOp.ret = "ok"
  /\ files = <<>>
  /\ out = <<DoneUndefined, ClearEmission>>
  /\ ~allowRepeatedUploads
  /\ deleted # {}

\* C8: upload() called while isUploading() is true throws before any effect:
\* no record changes, no backend call is issued, no attempt is started.
C8_UploadWhileUploading ==
  [][(lastOp'.op = "upload" /\ uploading)
       => (lastOp'.ret = "throw" /\ UNCHANGED Core /\ UNCHANGED cyc /\ Quiet)]_vars

C8_Witness ==
  /\ lastOp.op = "upload" /\ lastOp.ret = "throw"
  /\ uploading
  /\ \E i \in 1..Len(files) : files[i].status = "upload_failed"

\* C9: when every backend call is answered, every upload cycle ends by
\* upload$ completing; it completes only once no record of the batch is
\* uploading, and nothing but the four public operations ever throws.
C9_UploadSettles ==
  /\ running ~> ~running
  /\ [](completion.fired =>
          \A i \in 1..Len(completion.files) : completion.files[i].status # "uploading")
  /\ [](lastOp.ret = "throw" => lastOp.op \in {"setFiles", "upload", "abort", "clear"})

C9_Witness ==
  /\ completion.fired
  /\ Len(completion.files) = MaxFiles
  /\ completion.cyc.aborted
  /\ completion.cyc.rejected # {}
  /\ ~running

\* C10: a done notification with entries is emitted only for a non-empty batch
\* whose records are all uploaded, with one {id, kind} entry per record in
\* batch order, and once per batch: never twice, and always when the batch
\* reaches that state.
C10_DoneOnce ==
  /\ \A k \in 1..Len(Dones(out)) :
       LET e == Dones(out)[k]
       IN /\ Len(e.at) > 0
          /\ \A i \in 1..Len(e.at) : e.at[i].status = "uploaded"
          /\ Len(e.entries) = Len(e.at)
          /\ \A i \in 1..Len(e.at) : e.entries[i] = [id |-> e.at[i].id, kind |-> FileKindId]
  /\ Len(Dones(out)) <= 1
  /\ batchDones <= 1
  /\ batchDones = 1 <=> (Len(files) > 0 /\ \A i \in 1..Len(files) : files[i].status = "uploaded")
  /\ completion.fired =>
       (completion.batchDones = 1 <=>
          (/\ Len(completion.files) > 0
           /\ \A i \in 1..Len(completion.files) : completion.files[i].status = "uploaded"))

C10_Witness ==
  /\ lastOp.op = "upload" /\ lastOp.ret = "ok"
  /\ completion.fired
  /\ batchDones = 1
  /\ Len(files) = MaxFiles
  /\ Dones(out) = <<>>

\* The step replaced the batch: setFiles or clear returned, or the finalize of
\* upload$ cleared it.
Replaced ==
  \/ lastOp'.op \in {"setFiles", "clear"} /\ lastOp'.ret = "ok"
  \/ completion'.fired /\ allowRepeatedUploads

\* C11: uploading$ (what isUploading() returns) is true exactly when some
\* record of the current batch has status uploading; it is false for the empty
\* batch and after every replacement of the batch.
C11_UploadingIff ==
  /\ [](uploading <=> \E i \in 1..Len(files) : files[i].status = "uploading")
  /\ [](files = <<>> => ~uploading)
  /\ [][Replaced => ~uploading']_vars

C11_Witness ==
  /\ uploading
  /\ Len(files) = MaxFiles
  /\ files[1].status = "uploaded"
  /\ files[2].status = "uploading"

\* C12: whenever some record of the batch carries an error, error$ holds the
\* error of the first such record in batch order.
C12_FirstError ==
  \A i \in 1..Len(files) :
    (files[i].error # NoError /\ \A j \in 1..(i - 1) : files[j].error = NoError)
      => error = files[i].error

C12_Witness ==
  /\ Len(files) = MaxFiles
  /\ files[1].error = UploadError
  /\ files[2].error = CreateError
  /\ error = UploadError
  /\ lastOp.op = "uploadReject" /\ lastOp.i = 1

StatusSteps ==
  {<<"idle", "uploading">>, <<"uploading", "uploaded">>,
   <<"uploading", "upload_failed">>, <<"upload_failed", "uploading">>}

\* C13: within a batch a record's status changes only by idle -> uploading,
\* uploading -> uploaded, uploading -> upload_failed or upload_failed ->
\* uploading; an uploaded record does not change at all, and a record becomes
\* uploading only in a step of upload().
C13_StatusTransitions ==
  [][~(lastOp'.op \in {"setFiles", "clear"} /\ lastOp'.ret = "ok") =>
       /\ ~completion'.fired => Len(files') = Len(files)
       /\ completion'.fired => Len(completion'.files) = Len(files)
       /\ \A i \in 1..Len(files) :
            /\ \/ Post(i).status = files[i].status
               \/ <<files[i].status, Post(i).status>> \in StatusSteps
            /\ files[i].status = "uploaded" => Post(i) = files[i]
            /\ (files[i].status # "uploading" /\ Post(i).status = "uploading")
                 => lastOp'.op = "upload"]_vars

C13_Witness ==
  /\ lastOp.op = "upload" /\ lastOp.ret = "ok"
  /\ Len(files) = MaxFiles
  /\ files[1].status = "uploading"
  /\ files[2].status = "uploaded"

\* C14: the batch is never replaced while one of its records is uploading:
\* setFiles and clear succeed only when none is, the clear of upload$'s
\* finalize runs only once none is, and no other step changes the batch's
\* length or files.
C14_NoReplaceWhileUploading ==
  [][/\ (lastOp'.op \in {"setFiles", "clear"} /\ lastOp'.ret = "ok")
          => \A i \in 1..Len(files) : files[i].status # "uploading"
     /\ (completion'.fired /\ allowRepeatedUploads)
          => /\ \A i \in 1..Len(completion'.files) :
                  completion'.files[i].status # "uploading"
             /\ files' = <<>>
     /\ (\E i \in 1..Len(files) : files[i].status = "uploading" /\ ~completion'.fired)
          => /\ Len(files') = Len(files)
             /\ fileSizes' = fileSizes]_vars

C14_Witness ==
  /\ allowRepeatedUploads
  /\ completion.fired
  /\ Len(completion.files) = MaxFiles
  /\ completion.cyc.rejected = {1}
  /\ files = <<>>
  /\ lastOp.op = "uploadResolve"

\* C15 as claimed: for a batch that contains an oversized file no create and
\* no upload call is ever issued, also not by an upload() on that batch.
C15_Claimed ==
  Oversized => \A k \in 1..Len(calls) : calls[k][1] \notin {"create", "upload"}

Cleared(o) == \E k \in 1..Len(o) : o[k] = ClearEmission

\* A cycle that started attempts on the current batch has settled.
CycleSettled == ~running /\ cyc.started # {}

\* C16 as claimed: without allowRepeatedUploads the records of a settled cycle
\* change only in a step of clear() or setFiles().
C16_Claimed ==
  [][(~allowRepeatedUploads /\ CycleSettled /\ lastOp'.op \notin {"setFiles", "clear"})
       => files' = files]_vars

\* C16 amended: when upload$ completes, with allowRepeatedUploads the batch is
\* cleared in the same step (batch empty, error$ undefined, clear$ notified),
\* whatever the attempts' outcomes; without it every record is left as its
\* attempt ended and nothing is notified on clear$, and from then on the
\* records change only in a step of clear(), setFiles() or upload(), the last
\* of which leaves the uploaded records alone.
C16_AutoClear ==
  [][/\ completion'.fired =>
          /\ ~running' /\ ~uploading'
          /\ \A i \in 1..Len(completion'.files) :
               completion'.files[i].status \in {"uploaded", "upload_failed"}
          /\ IF allowRepeatedUploads
             THEN files' = <<>> /\ error' = NoError /\ Cleared(out')
             ELSE files' = completion'.files /\ ~Cleared(out')
     /\ (~allowRepeatedUploads /\ CycleSettled) =>
          /\ lastOp'.op \notin {"setFiles", "clear", "upload"}
               => files' = files /\ error' = error
          /\ lastOp'.op = "upload" =>
               \A i \in 1..Len(files) :
                 files[i].status = "uploaded" => Post(i) = files[i]]_vars

C16_Witness ==
  /\ allowRepeatedUploads
  /\ completion.fired
  /\ Len(completion.files) = MaxFiles
  /\ completion.cyc.aborted
  /\ completion.files[1].status = "uploaded"
  /\ completion.files[2].status = "upload_failed"
  /\ files = <<>>
  /\ error = NoError
  /\ Cleared(out)

\* The attempt of record i, in progress before the step, ended in the step.
AttemptEnded(i) == files[i].status = "uploading" /\ Post(i).status # "uploading"

\* The id that the attempt's create call returned, NoId if it has not or was
\* rejected: the one it raced with, or the one handed out in this very step.
CreatedId(i) ==
  IF att[i].pc = "race" THEN att[i].target
  ELSE IF lastOp'.op = "createResolve" /\ lastOp'.i = i THEN nextId'
  ELSE NoId

Deletes(id) == {k \in 1..Len(calls') : calls'[k] = <<"delete", id>>}

\* C17: an attempt that ends upload_failed (rejected or cancelled) after its
\* create call succeeded has delete called for its id exactly once, as it
\* ends; an attempt that ends uploaded, or whose create call was rejected, has
\* none; and no delete is called for anything else.
C17_DeleteOnce ==
  [][/\ \A i \in 1..Len(files) :
          AttemptEnded(i) =>
            IF Post(i).status = "upload_failed" /\ CreatedId(i) # NoId
            THEN /\ Cardinality(Deletes(CreatedId(i))) = 1
                 /\ CreatedId(i) \notin deleted
                 /\ CreatedId(i) \in deleted'
            ELSE /\ Deletes(CreatedId(i)) = {}
                 /\ CreatedId(i) \notin deleted'
     /\ \A k \in 1..Len(calls') :
          calls'[k][1] = "delete" =>
            \E i \in 1..Len(files) :
              /\ AttemptEnded(i)
              /\ Post(i).status = "upload_failed"
              /\ calls'[k][2] = CreatedId(i)
     /\ deleted' = deleted \cup {id \in 1..MaxIds : Deletes(id) # {}}]_vars

C17_Witness ==
  /\ lastOp.op = "abort" /\ lastOp.ret = "ok"
  /\ Len(calls) = MaxFiles
  /\ \A k \in 1..Len(calls) : calls[k][1] = "delete" /\ calls[k][2] \in deleted
  /\ calls[1] # calls[2]

\* The cycle record of the step: the one upload$ completed with, if it did.
PostCyc == IF completion'.fired THEN completion'.cyc ELSE cyc'

Creates(i) == {k \in 1..Len(calls') : calls'[k] = <<"create", i>>}

\* C18: an upload() that does not throw starts an attempt (status uploading,
\* error undefined, one create call) for exactly the records that are idle or
\* upload_failed; for an uploaded record it issues no create, upload or delete
\* call and leaves status, id and error as they are.
C18_UploadStartsIdleOrFailed ==
  [][(lastOp'.op = "upload" /\ lastOp'.ret = "ok") =>
       /\ \A i \in 1..Len(files) :
            IF files[i].status \in {"idle", "upload_failed"}
            THEN /\ i \in PostCyc.started
                 /\ Post(i).status = "uploading"
                 /\ Post(i).error = NoError
                 /\ Post(i).id = files[i].id
                 /\ Cardinality(Creates(i)) = 1
            ELSE /\ i \notin PostCyc.started
                 /\ files[i].status = "uploaded"
                 /\ Post(i) = files[i]
                 /\ att'[i].pc = "none"
                 /\ Creates(i) = {}
                 /\ ~Issued(<<"upload", i>>)
                 /\ ~Issued(<<"delete", files[i].id>>)
                 /\ files[i].id \notin deleted'
       /\ \A k \in 1..Len(calls') : calls'[k][1] = "create"]_vars

C18_Witness ==
  /\ lastOp.op = "upload" /\ lastOp.ret = "ok"
  /\ Len(files) = MaxFiles
  /\ files[1].status = "uploaded" /\ files[1].id # NoId
  /\ files[2].status = "uploading"
  /\ cyc.started = {2}
  /\ calls = <<<<"create", 2>>>>

\* C19: a record that is uploaded when abort() is called keeps status, id and
\* error through the abort, no delete is called for its id, and its id is
\* never among the deleted ones while it is in the batch.
C19_UploadedSurvivesAbort ==
  /\ [][(lastOp'.op = "abort" /\ lastOp'.ret = "ok") =>
          \A i \in 1..Len(files) :
            files[i].status = "uploaded" =>
              /\ Post(i) = files[i]
              /\ Post(i).id # NoId
              /\ ~Issued(<<"delete", files[i].id>>)
              /\ files[i].id \notin deleted']_vars
  /\ [](cyc.aborted =>
          \A i \in 1..Len(files) :
            files[i].status = "uploaded" =>
              files[i].id # NoId /\ files[i].id \notin deleted)

C19_Witness ==
  /\ lastOp.op = "abort" /\ lastOp.ret = "ok"
  /\ Len(files) = MaxFiles
  /\ files[1].status = "uploaded"
  /\ 1 \in cyc.started
  /\ files[1].id \notin deleted
  /\ files[2].status = "upload_failed"
  /\ calls = <<<<"delete", att[2].target>>>>

\* C20 as claimed: an attempt that was waiting for create when abort() was
\* called is not cancelled by that abort: when create resolves it goes on
\* uploading.
C20_Claimed ==
  [][(abortBuf /\ lastOp'.op = "createResolve")
       => Post(lastOp'.i).status = "uploading"]_vars

\* C20 amended: at the moment of the call abort() changes only the records
\* whose attempt waits in the race: they become upload_failed, every other
\* record is left as it is.  An attempt that waits for create at that moment
\* is cancelled by the same abort as soon as create resolves: the upload call
\* is issued, the record becomes upload_failed with no error and the attempt
\* ends; without an abort in the cycle it enters the race instead.
C20_AbortReachesRaceWaiters ==
  [][/\ (lastOp'.op = "abort" /\ lastOp'.ret = "ok") =>
          \A i \in 1..Len(files) :
            IF att[i].pc = "race"
            THEN Post(i).status = "upload_failed"
            ELSE Post(i) = files[i] /\ (~completion'.fired => att'[i] = att[i])
     /\ lastOp'.op = "createResolve" =>
          /\ calls'[1] = <<"upload", lastOp'.i>>
          /\ IF abortBuf
             THEN /\ cyc.aborted
                  /\ Post(lastOp'.i).status = "upload_failed"
                  /\ Post(lastOp'.i).error = NoError
                  /\ ~completion'.fired => att'[lastOp'.i].pc = "none"
             ELSE /\ ~cyc.aborted
                  /\ files'[lastOp'.i].status = "uploading"
                  /\ att'[lastOp'.i] = [pc |-> "race", target |-> nextId']
                  /\ calls' = <<<<"upload", lastOp'.i>>>>]_vars

C20_Witness ==
  /\ lastOp.op = "createResolve" /\ lastOp.i = 2
  /\ abortBuf
  /\ Len(files) = MaxFiles
  /\ files[1].status = "upload_failed" /\ att[1].target \in deleted
  /\ files[2].status = "upload_failed" /\ files[2].error = NoError
  /\ calls = <<<<"upload", 2>>, <<"delete", nextId>>>>
  /\ cyc.atAbort = {1, 2}

\* C21 as claimed: when the cycle's abort was raised before an attempt's create
\* call resolved, no upload call is made for that record.
C21_Claimed ==
  [][(abortBuf /\ lastOp'.op = "createResolve")
       => ~Issued(<<"upload", lastOp'.i>>)]_vars

\* C22: error$ goes from an error to undefined only in a step that empties the
\* batch through setFiles([]) or clear() (the clear of finalize included), and
\* every such setFiles does reset it; a record succeeding, a retry, an abort or
\* a setFiles with files never does.
C22_ErrorResetOnlyByEmptySetFiles ==
  [][/\ (error # NoError /\ error' = NoError) =>
          /\ files' = <<>>
          /\ \/ lastOp'.op \in {"setFiles", "clear"} /\ lastOp'.ret = "ok"
             \/ completion'.fired /\ allowRepeatedUploads
     /\ (lastOp'.op \in {"setFiles", "clear"} /\ lastOp'.ret = "ok" /\ files' = <<>>)
          => error' = NoError
     /\ (error # NoError /\ lastOp'.op = "setFiles" /\ files' # <<>>)
          => error' # NoError]_vars

C22_Witness ==
  /\ lastOp.op = "uploadResolve"
  /\ Len(files) = MaxFiles
  /\ \A i \in 1..Len(files) : files[i].status = "uploaded" /\ files[i].error = NoError
  /\ error = UploadError
  /\ deleted # {}

\* The attempt of record i ended in the step by cancellation: it failed, and
\* not because the backend rejected its call.
Cancelled(i) ==
  /\ AttemptEnded(i)
  /\ Post(i).status = "upload_failed"
  /\ ~(lastOp'.op \in {"createReject", "uploadReject"} /\ lastOp'.i = i)

\* C23: an attempt is cancelled only in a cycle during which abort() was
\* called: upload() starts every cycle with an empty abort buffer, the buffer
\* holds an abort only if this cycle's abort() put it there, and after an abort
\* in an earlier cycle an attempt whose create resolves enters the race.
C23_AbortScopedToCycle ==
  /\ [][/\ \A i \in 1..Len(files) : Cancelled(i) => PostCyc.aborted
        /\ (lastOp'.op = "upload" /\ lastOp'.ret = "ok")
             => ~abortBuf' /\ ~PostCyc.aborted
        /\ (lastOp'.op = "createResolve" /\ cyc.earlierAbort /\ ~cyc.aborted)
             => /\ files'[lastOp'.i].status = "uploading"
                /\ att'[lastOp'.i].pc = "race"]_vars
  /\ []((abortBuf /\ running) => cyc.aborted)

C23_Witness ==
  /\ cyc.earlierAbort
  /\ ~cyc.aborted
  /\ lastOp.op = "uploadResolve" /\ lastOp.i = 1
  /\ 1 \in cyc.started
  /\ files[1].status = "uploaded"
  /\ files[1].id \notin deleted

\* C24: every uploaded record holds a defined id, the one its successful
\* attempt obtained from create, and delete was never called for that id; the
\* ids of two uploaded records differ; every done notification carries only
\* such ids.
C24_UploadedIdLive ==
  /\ \A i \in 1..Len(files) :
       files[i].status = "uploaded" =>
         /\ files[i].id \in 1..nextId
         /\ files[i].id = att[i].target
         /\ files[i].id \notin deleted
         /\ \A j \in 1..Len(files) :
              (j # i /\ files[j].status = "uploaded") => files[j].id # files[i].id
  /\ \A k \in 1..Len(out) :
       (out[k].type = "done" /\ out[k].defined) =>
         \A n \in 1..Len(out[k].entries) :
           /\ out[k].entries[n].id \in 1..nextId
           /\ out[k].entries[n].id \notin deleted

C24_Witness ==
  /\ lastOp.op = "uploadResolve" /\ lastOp.i = 1
  /\ Len(files) = MaxFiles
  /\ Len(Dones(out)) = 1
  /\ deleted # {}
  /\ files[1].id > files[2].id
  /\ ~allowRepeatedUploads

\* uploadContent has been called for the request.
UploadContentCalled ==
  pc = "uploadContent" \/ (pc = "done" /\ response.kind # "lookupError")

\* C25: an abort of the request at any time after the handler has started is
\* in abort$'s buffer from then on, and uploadContent, once called, has been
\* handed it, whether the abort came while the handler awaited the file
\* service, the lookup or uploadContent itself.
C25_AbortDelivered ==
  abortedAt \in {"files", "getById", "uploadContent"} =>
    /\ abortReplay
    /\ UploadContentCalled => delivered

C25_Witness ==
  /\ abortedAt = "files"
  /\ pc = "done"
  /\ delivered
  /\ response = CustomError(AbortedUploadError, 499)

FileDeletes == Cardinality({k \in 1..Len(effects) : effects[k] = "file.delete"})

\* C26: once uploadContent has settled the handler has answered, according to
\* the outcome: resolved -> ok with the file's size; ContentAlreadyUploadedError
\* or UploadInProgressError -> 400, no delete; AbortedUploadError -> 499, and
\* file.delete called (once) exactly if selfDestructOnAbort is set; any other
\* error -> rethrown, no delete.  Until then nothing is answered or deleted.
C26_ResponseMapping ==
  /\ outcome = "none" =>
       /\ response.kind \in {"none", "lookupError"}
       /\ FileDeletes = 0
  /\ outcome = "resolved" =>
       /\ response.kind = "ok" /\ response.statusCode = 200 /\ response.size \in Sizes
       /\ FileDeletes = 0
  /\ outcome \in {ContentAlreadyUploadedError, UploadInProgressError} =>
       /\ response = BadRequest(outcome)
       /\ FileDeletes = 0
  /\ outcome = AbortedUploadError =>
       /\ response.kind = "customError" /\ response.statusCode = 499
       /\ response.message = AbortedUploadError
       /\ FileDeletes = IF selfDestructOnAbort = "true" THEN 1 ELSE 0
  /\ outcome = OtherError =>
       /\ response = Rethrown(OtherError)
       /\ FileDeletes = 0

C26_Witness ==
  /\ pc = "done"
  /\ outcome = AbortedUploadError
  /\ selfDestructOnAbort = "true"
  /\ response.statusCode = 499
  /\ FileDeletes = 1

\* C27 as claimed: whenever the handler has exited (lookup error, ok, 400, 499
\* or rethrown error) the subscription taken at its start has been
\* unsubscribed.
C27_Claimed == pc = "done" => sub = "unsubscribed"

RECURSIVE Flatten(_)
Flatten(bs) == IF bs = <<>> THEN <<>> ELSE Head(bs) \o Flatten(Tail(bs))

\* C28: runTask's promise is never rejected.  Whatever fetchClusterInfo and
\* fetchLicenseInfo settled with, the task goes on to fetch the alerts and
\* sends them: the batches are the enriched alerts in order, they are handed
\* to sendOnDemand in batch order, each only after the one before it resolved.
\* It returns the number of enriched alerts if every batch was sent and
\* resolved, and 0 otherwise: no alerts retrieved, fetchPrebuiltRuleAlerts
\* rejected, or a send rejected.
C28_RunTask ==
  /\ [](/\ result.settled # "rejected"
        /\ (taskPc = "done") <=> (result.settled = "fulfilled")
        /\ Flatten(batches) = enrichedAlerts
        /\ \A k \in 1..Len(batches) : Len(batches[k]) \in 1..maxTelemetryBatch
        /\ Len(sent) <= Len(batches)
        /\ \A k \in 1..Len(sent) : sent[k] = batches[k]
        /\ acked <= Len(sent) /\ Len(sent) <= acked + 1
        /\ enrichedAlerts # <<>> => Len(sent) >= 1
        /\ result.settled = "fulfilled" =>
             result.value = IF enrichedAlerts # <<>> /\ acked = Len(batches)
                            THEN Len(enrichedAlerts) ELSE 0)
  /\ [][taskPc = "allSettled" => taskPc' = "fetchPrebuiltRuleAlerts"]_vars

C28_Witness ==
  /\ taskPc = "done"
  /\ clusterInfo = EmptyClusterInfo
  /\ licenseInfo = LicenseValue
  /\ counter = <<MaxAlerts>>
  /\ result = Fulfilled(MaxAlerts)
  /\ Len(sent) >= 2
  /\ enrichedAlerts[1].cluster_uuid = "undefined"
  /\ enrichedAlerts[1].licence_id = "uid"

====
